---- MODULE Spec2Model ----
(***************************************************************************)
(* Model of morphogen's inflection prediction pipeline:                    *)
(*   predict.py       extract_instances, SimpleModel.score_all,            *)
(*                    VectorModel.score_all, make_model, main (evaluator)  *)
(*   struct_train.py  main (pool-building loop of the structured trainer)  *)
(*                                                                         *)
(* Encoding of the data                                                    *)
(*   - characters of an attribute string are small naturals; 0 is '-',     *)
(*     the pad character of str.ljust (it sorts before every letter);      *)
(*   - an attribute string is a sequence of characters, a tag is the       *)
(*     category code followed by the attribute string (tag[0], tag[1:]);   *)
(*   - surface forms, lemmas and tokens are naturals, ordered as their     *)
(*     strings are ordered;                                                *)
(*   - a float that is a log-probability log(n/d) is the pair <<n, d>> in  *)
(*     lowest terms: <<1, 1>> is 0.0, <<0, 1>> is -inf and <<0, 0>> is NaN;*)
(*     adding logs multiplies the fractions, subtracting divides them and  *)
(*     numpy.logaddexp adds them.  Rounding is not modelled.               *)
(*   - a float that is a plain number (a reciprocal rank) is the fraction  *)
(*     <<n, d>> in lowest terms.                                           *)
(*   - Python indices are 0-based; sequences here are 1-based, so Python's *)
(*     position p is index p + 1.  Alignment pairs keep Python's indices.  *)
(***************************************************************************)
EXTENDS Integers, Sequences, FiniteSets

VARIABLES
    pc,           \* position of the running program
    rev_map,      \* reverse inflection map: (lemma, category) -> candidate list
    hist,         \* the instances the main loop has finished with, in order
    source,       \* extract_instances: source token sequence
    target,       \* extract_instances: target (token, lemma, tag) sequence
    alignment,    \* extract_instances: set of (target index, source index)
    out,          \* extract_instances: the instances yielded so far
    it,           \* extract_instances: the loop variable i (0-based)
    model,        \* score_all: self (a SimpleModel or a VectorModel)
    inflections,  \* score_all: the candidate list passed in
    proba,        \* score_all: what predict_log_proba returned
    scored,       \* score_all: the returned list
    args_models,  \* predict.main: the artifacts named on the command line
    loaded,       \* predict.main: number of artifacts loaded so far
    models,       \* predict.main: category -> model
    stats,        \* predict.main: category -> four counters
    queue,        \* predict.main: instances of the current sentence to process
    nread,        \* predict.main: sentences read so far
    calls,        \* predict.main: number of score_all invocations
    report,       \* predict.main: the line printed for the last instance
    summary,      \* predict.main: the per-category lines printed at the end
    category,     \* struct_train.main: the variable category
    X,            \* struct_train.main
    Y_all,        \* struct_train.main
    Y_star,       \* struct_train.main
    Y_lim,        \* struct_train.main
    n,            \* struct_train.main
    inflection_lims \* struct_train.main: (lemma, category) -> (start, end)

commonVars  == <<pc, rev_map, hist>>
extractVars == <<source, target, alignment, out, it>>
scoreVars   == <<model, inflections, proba, scored>>
predictVars ==
    <<args_models, loaded, models, stats, queue, nread, calls, report, summary>>
trainVars   == <<category, X, Y_all, Y_star, Y_lim, n, inflection_lims>>
vars == <<commonVars, extractVars, scoreVars, predictVars, trainVars>>

----------------------------------------------------------------------------
(* Bounds of the model *)

MaxTgt == 2
MaxCands == 2
MaxInst == 2
MaxSentences == 2
MaxClasses == 2

(* Small domains of the data *)
SrcLens == {1, 2}
Lemmas == {1, 2}
Forms == {1, 2}
Chars == {0, 1}
Weights == {1, 2}
FeatureVectors == {1, 2}
Categories == {1, 2, 3}

(* config.EXTRACTED_TAGS: the category codes instances are extracted for *)
EXTRACTED_TAGS == {1, 2}

(* tagset.tag_length: number of attribute positions of a category *)
tag_length(cat) == IF cat = 1 THEN 1 ELSE 2

----------------------------------------------------------------------------
(* Sequences *)

Range(s) == {s[k] : k \in DOMAIN s}

RECURSIVE SeqsUpTo(_, _)
SeqsUpTo(S, k) ==
    IF k = 0 THEN {<<>>}
    ELSE LET shorter == SeqsUpTo(S, k - 1)
         IN  shorter \cup {Append(s, x) : s \in {t \in shorter : Len(t) = k - 1}, x \in S}

(* a sequence given as a function, evaluated once into a tuple *)
AsTuple(f) == f \o <<>>

(* the sequences of SeqsUpTo(S, k) without a repeated element *)
DistinctSeqsUpTo(S, k) ==
    {s \in SeqsUpTo(S, k) : \A a, b \in 1..Len(s) : a # b => s[a] # s[b]}

Reverse(s) == AsTuple([k \in 1..Len(s) |-> s[Len(s) + 1 - k]])

(* str.ljust(width, '-'): pad on the right, never truncate *)
ljust(s, width) ==
    IF Len(s) >= width THEN s
    ELSE AsTuple([k \in 1..width |-> IF k <= Len(s) THEN s[k] ELSE 0])

(* s < t for two strings: lexicographic, a proper prefix is smaller *)
RECURSIVE StrLess(_, _)
StrLess(s, t) ==
    IF t = <<>> THEN FALSE
    ELSE IF s = <<>> THEN TRUE
    ELSE IF Head(s) # Head(t) THEN Head(s) < Head(t)
    ELSE StrLess(Tail(s), Tail(t))

----------------------------------------------------------------------------
(* Floats *)

RECURSIVE GCD(_, _)
GCD(a, b) == IF b = 0 THEN a ELSE GCD(b, a % b)

Frac(a, b) ==
    IF b = 0 THEN <<0, 0>>
    ELSE IF a = 0 THEN <<0, 1>>
    ELSE LET g == GCD(a, b) IN <<a \div g, b \div g>>

NaN == <<0, 0>>
NegInf == <<0, 1>>
LogOne == <<1, 1>>
IsNaN(x) == x[2] = 0

(* x == y and x < y on floats: both are False when either is NaN *)
FloatEq(x, y) == ~IsNaN(x) /\ ~IsNaN(y) /\ x = y
FloatLess(x, y) == ~IsNaN(x) /\ ~IsNaN(y) /\ x[1] * y[2] < y[1] * x[2]

(* x + y and x - y on log-probabilities; (-inf) - (-inf) is NaN *)
LogPlus(x, y) == IF IsNaN(x) \/ IsNaN(y) THEN NaN ELSE Frac(x[1] * y[1], x[2] * y[2])
LogMinus(x, y) ==
    IF IsNaN(x) \/ IsNaN(y) THEN NaN ELSE Frac(x[1] * y[2], x[2] * y[1])

(* numpy.logaddexp(x, y); logaddexp(-inf, -inf) is -inf *)
logaddexp(x, y) ==
    IF IsNaN(x) \/ IsNaN(y) THEN NaN ELSE Frac(x[1] * y[2] + y[1] * x[2], x[2] * y[2])

(* numpy.logaddexp.reduce(xs); the identity of logaddexp is -inf *)
RECURSIVE logaddexp_reduce(_)
logaddexp_reduce(xs) ==
    IF xs = <<>> THEN NegInf
    ELSE IF Len(xs) = 1 THEN xs[1]
    ELSE logaddexp(logaddexp_reduce(SubSeq(xs, 1, Len(xs) - 1)), xs[Len(xs)])

(* x + y on plain fractions *)
FracPlus(x, y) == Frac(x[1] * y[2] + y[1] * x[2], x[2] * y[2])

----------------------------------------------------------------------------
(* predict.py: extract_instances *)

(* Values left alone by a program that does not use them *)
Idle == <<>>

(* config.FEATURES applied to (source, lemma, j): the feature dict is a
   function of exactly these three arguments *)
features_of(src, lemma, j) == <<src, lemma, j>>

(* line 15: the source indices aligned to target index i *)
word_alignments(al, i) == {p[2] : p \in {q \in al : q[1] = i}}

(* a plausible slip: only unaligned words are skipped *)
extract_at_any(src, tgt, al, i) ==
    LET word == tgt[i + 1]
        wa == word_alignments(al, i)
    IN  IF word[3][1] \notin EXTRACTED_TAGS THEN <<>>
        ELSE IF Cardinality(wa) = 0 THEN <<>>
        ELSE LET j == CHOOSE x \in wa : \A y \in wa : x <= y
             IN  <<  <<word, features_of(src, word[2], j)>>  >>

(* lines 13-20, one iteration of the loop: what is yielded for position i *)
extract_at(src, tgt, al, i) ==
    LET word == tgt[i + 1]
        wa == word_alignments(al, i)
    IN  IF word[3][1] \notin EXTRACTED_TAGS THEN <<>>
        ELSE IF Cardinality(wa) # 1 THEN <<>>
        ELSE LET j == CHOOSE x \in wa : TRUE
             IN  <<  <<word, features_of(src, word[2], j)>>  >>

(* lines 11-20: everything the generator yields, from position i on *)
RECURSIVE extract_from(_, _, _, _)
extract_from(src, tgt, al, i) ==
    IF i >= Len(tgt) THEN <<>>
    ELSE extract_at(src, tgt, al, i) \o extract_from(src, tgt, al, i + 1)

extract_instances(src, tgt, al) == extract_from(src, tgt, al, 0)

(* Inputs of the extractor *)
AttrStrings(cat) == SeqsUpTo(Chars, tag_length(cat))
Tags == {<<cat>> \o a : cat \in Categories, a \in {<<1>>}}
ExtractWords == {<<1, lemma, tag>> : lemma \in Lemmas, tag \in Tags}
Sources == {[k \in 1..len |-> k] : len \in SrcLens}
Alignments(tlen, slen) == SUBSET ((0..(tlen - 1)) \X (0..(slen - 1)))

ExtractIdle ==
    /\ source = Idle /\ target = Idle /\ alignment = {} /\ out = Idle /\ it = 0
ScoreIdle ==
    /\ model = Idle /\ inflections = Idle /\ proba = Idle /\ scored = Idle
PredictIdle ==
    /\ args_models = Idle /\ loaded = 0 /\ models = Idle /\ stats = Idle
    /\ queue = Idle /\ nread = 0 /\ calls = 0 /\ report = Idle /\ summary = Idle
TrainIdle ==
    /\ category = 0 /\ X = Idle /\ Y_all = Idle /\ Y_star = Idle /\ Y_lim = Idle
    /\ n = 0 /\ inflection_lims = Idle

InitExtract ==
    /\ pc = "extract"
    /\ rev_map = Idle /\ hist = Idle
    /\ source \in Sources
    /\ target \in SeqsUpTo(ExtractWords, MaxTgt)
    /\ alignment \in Alignments(Len(target), Len(source))
    /\ out = <<>>
    /\ it = 0
    /\ ScoreIdle /\ PredictIdle /\ TrainIdle

(* one iteration of the for loop of extract_instances *)
ExtractStep ==
    /\ pc = "extract"
    /\ it < Len(target)
    /\ out' = out \o extract_at(source, target, alignment, it)
    /\ it' = it + 1
    /\ UNCHANGED <<commonVars, source, target, alignment, scoreVars, predictVars, trainVars>>

(* the loop is exhausted: the generator returns *)
ExtractReturn ==
    /\ pc = "extract"
    /\ it >= Len(target)
    /\ pc' = "extracted"
    /\ UNCHANGED <<rev_map, hist, extractVars, scoreVars, predictVars, trainVars>>

NextExtract == ExtractStep \/ ExtractReturn

SpecExtract == InitExtract /\ [][NextExtract]_vars

(* target positions before i that yield an instance: the word's category code
   is extracted and exactly one alignment pair has that target index *)
OneToOne(i) ==
    /\ target[i + 1][3][1] \in EXTRACTED_TAGS
    /\ \E p \in alignment :
          /\ p[1] = i
          /\ \A q \in alignment : q[1] = i => q = p
EmittingBefore(i) == {k \in 0..(i - 1) : OneToOne(k)}

(* C1: at every point of the loop of extract_instances, the instances yielded
   so far are exactly those of the target positions visited whose category
   code is in the extracted set and that have exactly one alignment pair, one
   instance per such position, in increasing order of position, each with the
   features evaluated at the unique aligned source index; the whole output is
   what extract_instances returns. *)
C1_ExtractOneToOne ==
    pc \in {"extract", "extracted"} =>
        /\ Len(out) = Cardinality(EmittingBefore(it))
        /\ \A k \in 1..Len(out) :
              \E i \in EmittingBefore(it) :
                 /\ Cardinality(EmittingBefore(i)) = k - 1
                 /\ \E p \in alignment :
                       /\ p[1] = i
                       /\ out[k] = <<target[i + 1],
                                     features_of(source, target[i + 1][2], p[2])>>
        /\ (pc = "extracted" => out = extract_instances(source, target, alignment))

(* a finished extraction that yielded one instance and skipped an extracted
   word aligned to two source positions *)
C1_Witness ==
    /\ pc = "extracted"
    /\ Len(out) = 1
    /\ \E i \in 0..(Len(target) - 1) :
          /\ target[i + 1][3][1] \in EXTRACTED_TAGS
          /\ Cardinality(word_alignments(alignment, i)) = 2

----------------------------------------------------------------------------
(* predict.py: SimpleModel, VectorModel, make_model *)

(* A classifier-or-None.  classes is clf.classes_. *)
None == [present |-> FALSE, classes |-> {}]
Clf(classes) == [present |-> TRUE, classes |-> classes]

(* make_model(category, v, m): a dict of per-position classifiers makes a
   VectorModel, anything else a SimpleModel.  An artifact is the pickled
   (category, v, m); m is a classifier over attribute strings, or the dict
   position -> classifier-or-None, a sequence here (position p at p + 1). *)
make_model(artifact) ==
    IF artifact.isdict
    THEN [kind |-> "vector", category |-> artifact.category, clfs |-> artifact.m]
    ELSE [kind |-> "simple", category |-> artifact.category, clfs |-> artifact.m]

(* The artifacts of a category: one classifier over at most MaxClasses
   attribute strings, or one classifier-or-None per attribute position. *)
ClassSets(S) == {c \in SUBSET S : c # {} /\ Cardinality(c) <= MaxClasses}
SimpleArtifacts(cat) ==
    {[category |-> cat, isdict |-> FALSE, m |-> <<Clf(c)>>] :
        c \in ClassSets(AttrStrings(cat))}
RECURSIVE ClfSeqs(_)
ClfSeqs(len) ==
    IF len = 0 THEN {<<>>}
    ELSE {Append(s, c) : s \in ClfSeqs(len - 1),
                         c \in {None} \cup {Clf(k) : k \in ClassSets(Chars)}}
VectorArtifacts(cat) ==
    {[category |-> cat, isdict |-> TRUE, m |-> s] : s \in ClfSeqs(tag_length(cat))}
Artifacts(cat) == SimpleArtifacts(cat) \cup VectorArtifacts(cat)

(* The candidates a lemma of a category may have: (attribute-string, form) *)
Candidates(cat) == AttrStrings(cat) \X Forms

(* clf.predict_log_proba(fvector)[0] zipped with clf.classes_: every class
   gets weight w of a total W, its log-probability is log(w / W).  One such
   table per classifier of the model. *)
RECURSIVE Tables(_)
Tables(clfs) ==
    IF clfs = <<>> THEN {<<>>}
    ELSE {<<t>> \o rest : t \in [Head(clfs).classes -> Weights], rest \in Tables(Tail(clfs))}
Probas(m) == Tables(m.clfs)

RECURSIVE SumOver(_, _)
SumOver(f, S) ==
    IF S = {} THEN 0
    ELSE LET x == CHOOSE y \in S : TRUE IN f[x] + SumOver(f, S \ {x})

log_proba(table, class) == Frac(table[class], SumOver(table, DOMAIN table))

(* SimpleModel.score_all, lines 29-31: predictions.get(tag, -inf) *)
simple_scored(m, infl, pr) ==
    AsTuple([k \in 1..Len(infl) |->
                <<IF infl[k][1] \in m.clfs[1].classes
                  THEN log_proba(pr[1], infl[k][1]) ELSE NegInf,
                  infl[k][1], infl[k][2]>>])

(* VectorModel.score_all, lines 44-50: score_vectors[i][v] is a KeyError when
   position i has no entry in clfs, or has a classifier that never saw v *)
vector_key_error(m, tag) ==
    LET padded == ljust(tag, tag_length(m.category))
    IN  \E p \in 1..Len(padded) :
           \/ p \notin DOMAIN m.clfs
           \/ m.clfs[p].present /\ padded[p] \notin m.clfs[p].classes

RECURSIVE vector_sum(_, _, _, _)
vector_sum(m, pr, padded, p) ==
    IF p > Len(padded) THEN LogOne
    ELSE LogPlus(IF m.clfs[p].present THEN log_proba(pr[p], padded[p]) ELSE LogOne,
                 vector_sum(m, pr, padded, p + 1))

vector_score(m, pr, tag) == vector_sum(m, pr, ljust(tag, tag_length(m.category)), 1)

vector_scored(m, infl, pr) ==
    AsTuple([k \in 1..Len(infl) |->
                <<vector_score(m, pr, infl[k][1]), infl[k][1], infl[k][2]>>])

(* lines 32-33 and 52-53: subtract the log-sum-exp of the scores *)
normalize(sc) ==
    LET z == logaddexp_reduce([k \in 1..Len(sc) |-> sc[k][1]])
    IN  AsTuple([k \in 1..Len(sc) |-> <<LogMinus(sc[k][1], z), sc[k][2], sc[k][3]>>])

(* model.score_all(inflections, features) raises *)
score_all_raises(m, infl) ==
    /\ m.kind = "vector"
    /\ \E k \in 1..Len(infl) : vector_key_error(m, infl[k][1])

(* model.score_all(inflections, features) returns *)
score_all(m, infl, pr) ==
    IF m.kind = "vector" THEN normalize(vector_scored(m, infl, pr))
    ELSE normalize(simple_scored(m, infl, pr))

InitScore ==
    /\ pc = "call"
    /\ rev_map = Idle /\ hist = Idle
    /\ \E cat \in EXTRACTED_TAGS :
          /\ model \in {make_model(a) : a \in Artifacts(cat)}
          /\ inflections \in SeqsUpTo(Candidates(cat), MaxCands)
    /\ proba = Idle
    /\ scored = Idle
    /\ ExtractIdle /\ PredictIdle /\ TrainIdle

(* score_all runs to its return statement *)
ScoreReturn ==
    /\ pc = "call"
    /\ ~score_all_raises(model, inflections)
    /\ \E pr \in Probas(model) :
          /\ proba' = pr
          /\ scored' = score_all(model, inflections, pr)
    /\ pc' = "returned"
    /\ UNCHANGED <<rev_map, hist, model, inflections, extractVars, predictVars, trainVars>>

(* score_all dies with a KeyError *)
ScoreRaise ==
    /\ pc = "call"
    /\ score_all_raises(model, inflections)
    /\ \E pr \in Probas(model) : proba' = pr
    /\ pc' = "raised"
    /\ UNCHANGED <<rev_map, hist, model, inflections, scored, extractVars, predictVars, trainVars>>

NextScore == ScoreReturn \/ ScoreRaise

SpecScore == InitScore /\ [][NextScore]_vars

(* C4: score_all of either model on a candidate list of exactly one candidate
   returns one entry, that candidate with log-probability 0.0 *)
C4_SingletonLogProbZero ==
    (pc \in {"returned", "raised"} /\ Len(inflections) = 1) =>
        /\ pc = "returned"
        /\ scored = << <<LogOne, inflections[1][1], inflections[1][2]>> >>

(* C6: VectorModel.score_all on a non-empty candidate list returns one entry
   per candidate, in input order, attribute string and surface form unchanged,
   whatever values the candidates carry; the entry's log-probability is the
   normalised sum of the per-position contributions *)
C6_VectorOneEntryPerCandidate ==
    (pc \in {"returned", "raised"} /\ model.kind = "vector" /\ Len(inflections) >= 1) =>
        /\ pc = "returned"
        /\ Len(scored) = Len(inflections)
        /\ \A k \in 1..Len(inflections) :
              /\ scored[k][2] = inflections[k][1]
              /\ scored[k][3] = inflections[k][2]
        /\ scored = normalize(vector_scored(model, inflections, proba))

----------------------------------------------------------------------------
(* predict.py: main *)

(* a < b for two (score, tag, inflection) tuples, as Python compares tuples:
   the first items that are not == decide, by < *)
TupleLess(a, b) ==
    IF ~FloatEq(a[1], b[1]) THEN FloatLess(a[1], b[1])
    ELSE IF a[2] # b[2] THEN StrLess(a[2], b[2])
    ELSE a[3] < b[3]

(* a plausible slip: a sort on the score alone, sorted(key=score) *)
ScoreLess(a, b) == FloatLess(a[1], b[1])

(* list.sort(): a stable insertion sort with <; x goes before the first
   element it is smaller than.  by is "tuple" for Python's comparison of the
   whole tuples and "score" for a comparison of the scores alone. *)
Less(by, a, b) == IF by = "tuple" THEN TupleLess(a, b) ELSE ScoreLess(a, b)

RECURSIVE InsertSorted(_, _, _)
InsertSorted(s, x, by) ==
    IF s = <<>> THEN <<x>>
    ELSE IF Less(by, x, Head(s)) THEN <<x>> \o s
    ELSE <<Head(s)>> \o InsertSorted(Tail(s), x, by)

RECURSIVE SortWith(_, _)
SortWith(s, by) ==
    IF s = <<>> THEN <<>>
    ELSE InsertSorted(SortWith(SubSeq(s, 1, Len(s) - 1), by), s[Len(s)], by)

sorted_by_score(s) == Reverse(SortWith(Reverse(s), "score"))

(* line 98, sorted(s, reverse=True): reverse, sort ascending, reverse *)
sorted_reverse(s) == Reverse(SortWith(Reverse(s), "tuple"))

(* a plausible slip: the miss is counted as an instance *)
stats_counting(st, cat) ==
    [st EXCEPT ![cat] = <<st[cat][1] + 1, st[cat][2], st[cat][3], st[cat][4]>>]

(* lines 90-93: the counters after a miss *)
stats_after_miss(st, cat) == st

(* lines 101-102: the first entry of the ranking whose tag is the gold tag *)
first_with_tag(ranked, gold_tag) ==
    CHOOSE k \in 1..Len(ranked) :
        /\ ranked[k][2] = gold_tag
        /\ \A j \in 1..(k - 1) : ranked[j][2] # gold_tag

(* lines 109-112: the counters after an evaluated instance *)
stats_after_hit(st, cat, gold_rank, correct, gold_score) ==
    [st EXCEPT ![cat] = <<st[cat][1] + 1,
                          FracPlus(st[cat][2], Frac(1, gold_rank)),
                          st[cat][3] + (IF correct THEN 1 ELSE 0),
                          LogPlus(st[cat][4], gold_score)>>]

(* rev_map.get((lemma, category), []) *)
lookup(map, lemma, cat) ==
    IF <<lemma, cat>> \in DOMAIN map THEN map[<<lemma, cat>>] ELSE <<>>

InList(x, s) == \E k \in 1..Len(s) : s[k] = x

(* the instance at the head of the queue, as lines 86-89 unpack it *)
GoldInflection(inst) == inst[1][1]
Lemma(inst) == inst[1][2]
Category(inst) == inst[1][3][1]
GoldTag(inst) == Tail(inst[1][3])
Possible(map, inst) == lookup(map, Lemma(inst), Category(inst))
GoldFound(map, inst) == InList(<<GoldTag(inst), GoldInflection(inst)>>, Possible(map, inst))

(* what the evaluator's history keeps of a finished instance: its category
   and whether its gold pair was among its candidates *)
Outcome(map, inst) == <<Category(inst), GoldFound(map, inst)>>

NoReport ==
    [kind |-> "none", word |-> <<>>, possible |-> <<>>, scored |-> <<>>, ranked |-> <<>>,
     gold_rank |-> 0, gold_score |-> NaN, predicted |-> <<>>]

(* Inputs of the evaluator.  A candidate list of the reverse inflection map
   holds no (attribute-string, surface-form) pair twice. *)
PredictAttrs == {<<0>>, <<1>>}
PredictWords ==
    {<<form, 1, <<cat>> \o a>> : form \in Forms, cat \in EXTRACTED_TAGS, a \in PredictAttrs}
    \cup {<<1, lemma, <<cat, 1>>>> : lemma \in Lemmas, cat \in Categories}
PredictAlignments == {{}, {<<0, 0>>}}
PredictCandidates == PredictAttrs \X Forms
RevMaps ==
    {[key \in {<<1, 1>>, <<1, 2>>} |->
        IF key = <<1, 1>> THEN l ELSE << <<<<1>>, 1>>, <<<<0>>, 2>>, <<<<1>>, 2>> >>] :
        l \in DistinctSeqsUpTo(PredictCandidates, MaxCands)}
(* The artifacts named on the command line: one or two of a monolithic
   classifier of category 1 that has seen the attribute string "1" only, a
   factorized model of category 1 whose first position has seen the character
   1 only, and a factorized model of category 2 with a classifier over all
   characters at every position *)
SimplePartial(cat) == [category |-> cat, isdict |-> FALSE, m |-> <<Clf({<<1>>})>>]
VectorFull(cat) ==
    [category |-> cat, isdict |-> TRUE, m |-> [p \in 1..tag_length(cat) |-> Clf(Chars)]]
VectorPartial(cat) ==
    [category |-> cat, isdict |-> TRUE,
     m |-> [p \in 1..tag_length(cat) |-> IF p = 1 THEN Clf({1}) ELSE None]]
PredictArtifacts == {SimplePartial(1), VectorPartial(1), VectorFull(2)}
PredictModelLists == SeqsUpTo(PredictArtifacts, 2) \ {<<>>}

InitPredict ==
    /\ pc = "load"
    /\ rev_map \in RevMaps
    /\ hist = <<>>
    /\ args_models \in PredictModelLists
    /\ loaded = 0
    /\ models = <<>>
    /\ stats = <<>>
    /\ queue = <<>>
    /\ nread = 0
    /\ calls = 0
    /\ report = NoReport
    /\ summary = <<>>
    /\ ExtractIdle /\ ScoreIdle /\ TrainIdle

(* lines 75-78: one artifact is unpickled and stored under its category *)
LoadModel ==
    /\ pc = "load"
    /\ loaded < Len(args_models)
    /\ LET artifact == args_models[loaded + 1]
       IN  models' = [c \in DOMAIN models \cup {artifact.category} |->
                         IF c = artifact.category THEN make_model(artifact) ELSE models[c]]
    /\ loaded' = loaded + 1
    /\ UNCHANGED <<commonVars, args_models, stats, queue, nread, calls, report, summary,
                   extractVars, scoreVars, trainVars>>

(* lines 80-82: all artifacts are loaded, the counters are set to zero *)
StartEval ==
    /\ pc = "load"
    /\ loaded = Len(args_models)
    /\ stats' = [cat \in EXTRACTED_TAGS |-> <<0, <<0, 1>>, 0, LogOne>>]
    /\ pc' = "loop"
    /\ UNCHANGED <<rev_map, hist, args_models, loaded, models, queue, nread, calls, report,
                   summary, extractVars, scoreVars, trainVars>>

(* lines 84-85: the next sentence is read and its instances extracted *)
ReadSentence ==
    /\ pc = "loop"
    /\ queue = <<>>
    /\ nread < MaxSentences
    /\ \E tgt \in PredictWords, al \in PredictAlignments :
          queue' = extract_instances(<<1>>, <<tgt>>, al)
    /\ nread' = nread + 1
    /\ report' = NoReport
    /\ UNCHANGED <<commonVars, args_models, loaded, models, stats, calls, summary,
                   extractVars, scoreVars, trainVars>>

(* lines 86-93: the gold pair is not among the candidates *)
EvalMiss ==
    /\ pc = "loop"
    /\ queue # <<>>
    /\ LET inst == Head(queue)
       IN  /\ ~GoldFound(rev_map, inst)
           /\ report' = [NoReport EXCEPT !.kind = "miss", !.word = inst[1],
                                         !.possible = Possible(rev_map, inst)]
           /\ stats' = stats_after_miss(stats, Category(inst))
           /\ hist' = Append(hist, Outcome(rev_map, inst))
    /\ queue' = Tail(queue)
    /\ UNCHANGED <<pc, rev_map, args_models, loaded, models, nread, calls, summary,
                   extractVars, scoreVars, trainVars>>

(* line 95: models[category] is a KeyError *)
EvalNoModel ==
    /\ pc = "loop"
    /\ queue # <<>>
    /\ GoldFound(rev_map, Head(queue))
    /\ Category(Head(queue)) \notin DOMAIN models
    /\ pc' = "crashed"
    /\ UNCHANGED <<rev_map, hist, predictVars, extractVars, scoreVars, trainVars>>

(* line 97: score_all raises *)
EvalRaise ==
    /\ pc = "loop"
    /\ queue # <<>>
    /\ GoldFound(rev_map, Head(queue))
    /\ Category(Head(queue)) \in DOMAIN models
    /\ score_all_raises(models[Category(Head(queue))], Possible(rev_map, Head(queue)))
    /\ calls' = calls + 1
    /\ pc' = "crashed"
    /\ UNCHANGED <<rev_map, hist, args_models, loaded, models, stats, queue, nread, report,
                   summary, extractVars, scoreVars, trainVars>>

(* lines 95-112: the instance is scored, ranked, printed and counted *)
EvalHit ==
    /\ pc = "loop"
    /\ queue # <<>>
    /\ GoldFound(rev_map, Head(queue))
    /\ Category(Head(queue)) \in DOMAIN models
    /\ LET inst == Head(queue)
           mdl == models[Category(inst)]
           possible_inflections == Possible(rev_map, inst)
       IN  /\ ~score_all_raises(mdl, possible_inflections)
           /\ \E pr \in Probas(mdl) :
              \E scored_inflections \in {score_all(mdl, possible_inflections, pr)} :
              \E ranked_inflections \in {sorted_reverse(scored_inflections)} :
                 LET predicted == ranked_inflections[1]
                     first == first_with_tag(ranked_inflections, GoldTag(inst))
                     gold_rank == 1 + (first - 1)
                     gold_score == ranked_inflections[first][1]
                 IN  /\ report' = [kind |-> "hit", word |-> inst[1],
                                   possible |-> possible_inflections,
                                   scored |-> scored_inflections,
                                   ranked |-> ranked_inflections,
                                   gold_rank |-> gold_rank, gold_score |-> gold_score,
                                   predicted |-> predicted]
                     /\ stats' = stats_after_hit(stats, Category(inst), gold_rank,
                                                 GoldInflection(inst) = predicted[3],
                                                 gold_score)
           /\ hist' = Append(hist, Outcome(rev_map, inst))
    /\ calls' = calls + 1
    /\ queue' = Tail(queue)
    /\ UNCHANGED <<pc, rev_map, args_models, loaded, models, nread, summary,
                   extractVars, scoreVars, trainVars>>

(* lines 114-119: end of input, one line per category with instances: MRR,
   accuracy, and the mean log-probability that the perplexity is computed from
   (as the pair of the total and the count) *)
Summary ==
    /\ pc = "loop"
    /\ queue = <<>>
    /\ summary' = [cat \in {c \in EXTRACTED_TAGS : stats[c][1] # 0} |->
                      <<Frac(stats[cat][2][1], stats[cat][2][2] * stats[cat][1]),
                        Frac(stats[cat][3], stats[cat][1]),
                        <<stats[cat][4], stats[cat][1]>>,
                        stats[cat][1]>>]
    /\ pc' = "done"
    /\ UNCHANGED <<rev_map, hist, args_models, loaded, models, stats, queue, nread, calls,
                   report, extractVars, scoreVars, trainVars>>

NextPredict ==
    \/ LoadModel \/ StartEval \/ ReadSentence
    \/ EvalMiss \/ EvalNoModel \/ EvalRaise \/ EvalHit
    \/ Summary

SpecPredict == InitPredict /\ [][NextPredict]_vars

(* number of finished instances of a category whose gold pair was found *)
Hits(cat) == Cardinality({k \in 1..Len(hist) : hist[k] = <<cat, TRUE>>})

(* the instance at the head of the queue is a miss: its gold pair is not in
   the candidate list of its (lemma, category) *)
AtMiss == pc = "loop" /\ queue # <<>> /\ ~GoldFound(rev_map, Head(queue))

(* C2: the evaluator's step on an instance whose gold pair is not among the
   candidates of its (lemma, category) reports a miss, leaves the four counters
   of every category unchanged, does not call score_all and goes on with the
   next instance; and at every point of the run each category's instance count
   is the number of finished instances of that category whose gold pair was
   among the candidates. *)
C2_MissExcluded ==
    /\ [][AtMiss => /\ report'.kind = "miss"
                    /\ stats' = stats
                    /\ calls' = calls
                    /\ pc' = "loop"
                    /\ queue' = Tail(queue)]_vars
    /\ [](pc \in {"loop", "done", "crashed"} =>
             \A cat \in EXTRACTED_TAGS : stats[cat][1] = Hits(cat))

(* after an evaluated instance, a miss on an unknown (lemma, category) *)
C2_Witness ==
    /\ pc = "loop"
    /\ report.kind = "miss"
    /\ report.possible = <<>>
    /\ \E k \in 1..Len(hist) : hist[k][2]
    /\ \E cat \in EXTRACTED_TAGS : stats[cat][1] = 1

(* two of the artifacts loaded so far carry the same category id *)
DuplicateLoaded ==
    \E a, b \in 1..loaded : a # b /\ args_models[a].category = args_models[b].category

(* C3: once two artifacts of the same category have been loaded the run is
   aborted: it never gets past loading, so no instance is scored *)
C3_DuplicateCategoryAborts ==
    DuplicateLoaded => pc \notin {"loop", "done"} /\ calls = 0

(* the first position of an entry with this candidate in a ranking *)
PosOf(ranked, tag, infl) ==
    CHOOSE k \in 1..Len(ranked) :
        /\ ranked[k][2] = tag /\ ranked[k][3] = infl
        /\ \A j \in 1..(k - 1) : ~(ranked[j][2] = tag /\ ranked[j][3] = infl)

(* the ranking is a rearrangement of score_all's output, never increasing
   in log-probability *)
RankedDescending(r) ==
    /\ Len(r.ranked) = Len(r.scored)
    /\ \A e \in Range(r.scored) :
          Cardinality({k \in 1..Len(r.scored) : r.scored[k] = e})
              = Cardinality({k \in 1..Len(r.ranked) : r.ranked[k] = e})
    /\ \A p, q \in 1..Len(r.ranked) : p < q => ~FloatLess(r.ranked[p][1], r.ranked[q][1])

(* C5 as stated: the ranking is in descending order of log-probability and two
   candidates of equal log-probability keep the order they have in the
   candidate list, so the prediction among tied top scores is the first of
   them in the candidate list *)
C5_TiesInInputOrder ==
    report.kind = "hit" =>
        /\ RankedDescending(report)
        /\ \A a, b \in 1..Len(report.scored) :
              (/\ a < b
               /\ FloatEq(report.scored[a][1], report.scored[b][1])
               /\ <<report.scored[a][2], report.scored[a][3]>>
                      # <<report.scored[b][2], report.scored[b][3]>>)
              => PosOf(report.ranked, report.scored[a][2], report.scored[a][3])
                     < PosOf(report.ranked, report.scored[b][2], report.scored[b][3])

(* (tag, inflection) of a < (tag, inflection) of b *)
PairLess(a, b) == IF a[2] # b[2] THEN StrLess(a[2], b[2]) ELSE a[3] < b[3]

(* C5, amended: the ranking is in descending order of log-probability and two
   candidates of equal log-probability appear in descending order of
   (attribute-string, surface-form); the prediction is the first entry of that
   ranking *)
C5_TiesInDescendingPairOrder ==
    report.kind = "hit" =>
        /\ RankedDescending(report)
        /\ \A p, q \in 1..Len(report.ranked) :
              (p < q /\ FloatEq(report.ranked[p][1], report.ranked[q][1]))
              => ~PairLess(report.ranked[p], report.ranked[q])
        /\ report.predicted = report.ranked[1]

(* an evaluated instance with two tied candidates that the ranking swaps, and
   a third of another log-probability *)
C5_Witness ==
    /\ report.kind = "hit"
    /\ \E a, b \in 1..Len(report.scored) :
          /\ a < b
          /\ FloatEq(report.scored[a][1], report.scored[b][1])
          /\ PosOf(report.ranked, report.scored[b][2], report.scored[b][3])
                 < PosOf(report.ranked, report.scored[a][2], report.scored[a][3])
    /\ \E p, q \in 1..Len(report.ranked) :
          FloatLess(report.ranked[q][1], report.ranked[p][1])

(* C10: the recorded gold rank is the 1-based position in the ranking of the
   candidate equal to the gold (attribute-string, surface-form) pair, the
   recorded gold score is that candidate's log-probability *)
C10_GoldRankIsGoldPair ==
    report.kind = "hit" =>
        /\ report.gold_rank \in 1..Len(report.ranked)
        /\ report.ranked[report.gold_rank][2] = Tail(report.word[3])
        /\ report.ranked[report.gold_rank][3] = report.word[1]
        /\ report.gold_score = report.ranked[report.gold_rank][1]

----------------------------------------------------------------------------
(* struct_train.py: main *)

(* config.get_attributes(category, attributes): the per-position indicators
   of an attribute string, (position, value) for every position of the padded
   string; the label row has a 1 for each of them *)
get_attributes(cat, attributes) ==
    LET padded == ljust(attributes, tag_length(cat))
    IN  {<<p - 1, padded[p]>> : p \in 1..Len(padded)}

(* line 48: the label row of a candidate *)
label(cat, attributes) == get_attributes(cat, attributes)

(* a plausible slip: only the gold check, the cardinality-1 check forgotten *)
skipped_gold_only(possible, gold) == ~InList(gold, possible)

(* lines 41-42: the instance is skipped *)
skipped(possible, gold) == Len(possible) = 1 \/ ~InList(gold, possible)

(* a plausible slip: the cache is never hit *)
cached_never(lims, key) == FALSE

(* lines 45-46: inflection_lims.get(key, None) is not None *)
cached(lims, key) == key \in DOMAIN lims

(* lines 47-49: the rows appended for a new candidate list *)
rows(cat, possible) ==
    AsTuple([k \in 1..Len(possible) |-> label(cat, possible[k][1])])

(* lines 55-57: the indices i of the candidates whose attributes are the
   reference attributes, in order *)
RECURSIVE star_indices(_, _, _)
star_indices(possible, ref_attributes, i) ==
    IF i >= Len(possible) THEN <<>>
    ELSE (IF possible[i + 1][1] = ref_attributes THEN <<i>> ELSE <<>>)
         \o star_indices(possible, ref_attributes, i + 1)

(* Inputs of the trainer: the instances crf_train.extract_instances yields,
   each ((token, lemma, tag), features) *)
TrainInstances ==
    {<< <<form, 1, <<1>> \o a>>, f >> : form \in Forms, a \in PredictAttrs, f \in FeatureVectors}
    \cup {<< <<1, 2, <<1>> \o a>>, 1 >> : a \in PredictAttrs}
    \cup {<< <<1, lemma, <<2, 1>>>>, 1 >> : lemma \in Lemmas}
TrainRevMaps ==
    {[key \in {<<1, 1>>, <<2, 1>>, <<1, 2>>} |->
        IF key = <<1, 1>> THEN l
        ELSE IF key = <<2, 1>> THEN << <<<<0>>, 1>>, <<<<1>>, 1>> >>
        ELSE << <<<<1>>, 1>> >>] :
        l \in DistinctSeqsUpTo(PredictCandidates, MaxCands)}

InitTrain ==
    /\ pc = "pool"
    /\ rev_map \in TrainRevMaps
    /\ hist = <<>>
    /\ category \in EXTRACTED_TAGS
    /\ X = <<>> /\ Y_all = <<>> /\ Y_star = <<>> /\ Y_lim = <<>>
    /\ n = 0
    /\ inflection_lims = <<>>
    /\ ExtractIdle /\ ScoreIdle /\ PredictIdle

(* lines 35-42: the next instance is skipped *)
TrainSkip ==
    /\ pc = "pool"
    /\ Len(hist) < MaxInst
    /\ \E inst \in TrainInstances :
          /\ skipped(Possible(rev_map, inst), <<GoldTag(inst), GoldInflection(inst)>>)
          /\ category' = Category(inst)
          /\ hist' = Append(hist, inst)
    /\ UNCHANGED <<pc, rev_map, X, Y_all, Y_star, Y_lim, n, inflection_lims,
                   extractVars, scoreVars, predictVars>>

(* lines 35-57: the next instance is added to the pool *)
TrainRetain ==
    /\ pc = "pool"
    /\ Len(hist) < MaxInst
    /\ \E inst \in TrainInstances :
          LET possible_inflections == Possible(rev_map, inst)
              key == <<Lemma(inst), Category(inst)>>
              new == ~cached(inflection_lims, key)
              lims == IF new THEN <<n, n + Len(possible_inflections)>>
                      ELSE inflection_lims[key]
          IN  /\ ~skipped(possible_inflections, <<GoldTag(inst), GoldInflection(inst)>>)
              /\ category' = Category(inst)
              /\ X' = Append(X, inst[2])
              /\ Y_all' = IF new THEN Y_all \o rows(Category(inst), possible_inflections)
                          ELSE Y_all
              /\ inflection_lims' =
                    IF new
                    THEN [k \in DOMAIN inflection_lims \cup {key} |->
                             IF k = key THEN lims ELSE inflection_lims[k]]
                    ELSE inflection_lims
              /\ n' = IF new THEN n + Len(possible_inflections) ELSE n
              /\ Y_lim' = Append(Y_lim, lims)
              /\ Y_star' = Y_star \o star_indices(possible_inflections, GoldTag(inst), 0)
              /\ hist' = Append(hist, inst)
    /\ UNCHANGED <<pc, rev_map, extractVars, scoreVars, predictVars>>

(* line 60, del rev_map: the input is exhausted and the map is released; the
   pooled arrays go to StructuredModel.train *)
ReleaseRevMap ==
    /\ pc = "pool"
    /\ rev_map' = <<>>
    /\ pc' = "train"
    /\ UNCHANGED <<hist, trainVars, extractVars, scoreVars, predictVars>>

NextTrain == TrainSkip \/ TrainRetain \/ ReleaseRevMap

SpecTrain == InitTrain /\ [][NextTrain]_vars

(* the gold (attribute-string, surface-form) pair and the candidate list of a
   training instance *)
Gold(inst) == <<GoldTag(inst), GoldInflection(inst)>>
Key(inst) == <<Lemma(inst), Category(inst)>>

(* what the skip policy asks for: the instance has a candidate list of
   exactly one element, or its gold pair is not in its candidate list *)
MustBeSkipped(inst) ==
    \/ Len(Possible(rev_map, inst)) = 1
    \/ \A k \in 1..Len(Possible(rev_map, inst)) : Possible(rev_map, inst)[k] # Gold(inst)
MustBeKept(inst) == ~MustBeSkipped(inst)

(* the instances of the history that the skip policy keeps, in order *)
Kept == SelectSeq(hist, MustBeKept)

(* the (lemma, category) groups of the kept instances *)
KeptKeys == {Key(Kept[k]) : k \in 1..Len(Kept)}
FirstKept(key) == CHOOSE k \in 1..Len(Kept) :
                     Key(Kept[k]) = key /\ \A j \in 1..(k - 1) : Key(Kept[j]) # key

RECURSIVE SumSizes(_)
SumSizes(keys) ==
    IF keys = {} THEN 0
    ELSE LET key == CHOOSE k \in keys : TRUE
         IN  Len(lookup(rev_map, key[1], key[2])) + SumSizes(keys \ {key})

RECURSIVE CountStars(_)
CountStars(insts) ==
    IF insts = <<>> THEN 0
    ELSE Cardinality({k \in 1..Len(Possible(rev_map, Head(insts))) :
                         Possible(rev_map, Head(insts))[k][1] = GoldTag(Head(insts))})
         + CountStars(Tail(insts))

(* C7: at every point of the pool-building loop, X and Y_lim hold exactly one
   entry per instance that the skip policy keeps (X its features, in order),
   Y_star holds only the indices of those instances, Y_all only the rows of
   their groups; so an instance with exactly one candidate or without its gold
   pair among the candidates has contributed nothing, and every range of Y_lim
   spans at least two rows *)
C7_SkippedContributeNothing ==
    pc = "pool" =>
        /\ Len(X) = Len(Kept)
        /\ \A k \in 1..Len(X) : X[k] = Kept[k][2]
        /\ Len(Y_lim) = Len(Kept)
        /\ Len(Y_star) = CountStars(Kept)
        /\ Len(Y_all) = SumSizes(KeptKeys)
        /\ \A k \in 1..Len(Y_lim) : Y_lim[k][2] - Y_lim[k][1] >= 2

(* the loop has skipped an instance with exactly one candidate, its gold pair,
   and kept another instance *)
C7_Witness ==
    /\ pc = "pool"
    /\ Len(X) = 1
    /\ \E k \in 1..Len(hist) :
          /\ Len(Possible(rev_map, hist[k])) = 1
          /\ Possible(rev_map, hist[k])[1] = Gold(hist[k])

(* C8: X, Y_lim and Y_star have the same length, and for every kept instance k
   the gold index Y_star[k] lies within the instance's range and names the
   candidate that is the instance's gold pair *)
C8_GoldIndexPerInstance ==
    pc = "pool" =>
        /\ Len(X) = Len(Y_lim)
        /\ Len(Y_star) = Len(X)
        /\ \A k \in 1..Len(Y_star) :
              /\ 0 <= Y_star[k]
              /\ Y_star[k] < Y_lim[k][2] - Y_lim[k][1]
              /\ Possible(rev_map, Kept[k])[Y_star[k] + 1] = Gold(Kept[k])

(* the pool is well formed: n counts the rows, every group of a kept instance
   has one range, of the size of its candidate list and holding the label rows
   of its candidates; the ranges are laid out one after the other from 0 in
   order of first appearance, and every kept instance records the range of its
   group *)
PoolWellFormed ==
    /\ n = Len(Y_all)
    /\ DOMAIN inflection_lims = KeptKeys
    /\ Len(Y_all) = SumSizes(KeptKeys)
    /\ \A key \in KeptKeys :
          LET lims == inflection_lims[key]
              possible == lookup(rev_map, key[1], key[2])
          IN  /\ 0 <= lims[1]
              /\ lims[2] - lims[1] = Len(possible)
              /\ lims[2] <= Len(Y_all)
              /\ \A i \in 1..Len(possible) :
                    Y_all[lims[1] + i] = label(key[2], possible[i][1])
    /\ \A a, b \in KeptKeys :
          FirstKept(a) < FirstKept(b) => inflection_lims[a][2] <= inflection_lims[b][1]
    /\ Len(Y_lim) = Len(Kept)
    /\ \A k \in 1..Len(Y_lim) : Y_lim[k] = inflection_lims[Key(Kept[k])]

(* C9: at every point of the pool-building loop the pool is well formed (the
   rows of a group are in Y_all exactly once, the ranges are disjoint, cover
   Y_all and follow the order of first appearance, n is len(Y_all), later
   instances of a group record the same range), and a step of the loop neither
   changes nor removes a row of Y_all or a recorded range *)
C9_GroupsAppendedOnce ==
    /\ [](pc = "pool" => PoolWellFormed)
    /\ [][pc = "pool" =>
            /\ Len(Y_all') >= Len(Y_all)
            /\ SubSeq(Y_all', 1, Len(Y_all)) = Y_all
            /\ \A key \in DOMAIN inflection_lims :
                  /\ key \in DOMAIN inflection_lims'
                  /\ inflection_lims'[key] = inflection_lims[key]]_vars

(* two kept instances of the same group: the second reused the range *)
C9_Witness ==
    /\ pc = "pool"
    /\ Len(Y_lim) = 2
    /\ Key(Kept[1]) = Key(Kept[2])
    /\ Y_lim[1] = Y_lim[2]
    /\ Len(Y_all) = Y_lim[1][2]

====
